---- MODULE Spec2Model ----
(***************************************************************************)
(* Model of wh.py: merges the git logs of the configured repositories,     *)
(* sorts them by date and prints an aligned, wrapped report.               *)
(*                                                                         *)
(* Python strings are sequences of one-character strings, so that strip,   *)
(* replace, split, basename and len are computed as the code computes      *)
(* them.  The two separator constants SEP1 and SEP2 are one symbol each.   *)
(* Python values whose type matters (argparse values, YAML values) are     *)
(* records [t |-> type, v |-> value].                                      *)
(***************************************************************************)
EXTENDS Integers, Sequences, FiniteSets, TLC

\* ---------------------------------------------------------------- bounds
MaxRepos == 2

\* ------------------------------------------------------------- constants
SEP1 == <<":AUXOouLEU9e387:">>
SEP2 == <<":XDoHXS3OETHHU:">>
DefaultWidth == 60

\* -------------------------------------------------------- python strings
Whitespace == {" ", "\n", "\t", "\r"}

Max(a, b) == IF a >= b THEN a ELSE b

RECURSIVE LStrip(_)
LStrip(s) ==
  IF s # <<>> /\ Head(s) \in Whitespace THEN LStrip(Tail(s)) ELSE s

RECURSIVE RStrip(_)
RStrip(s) ==
  IF s # <<>> /\ s[Len(s)] \in Whitespace
  THEN RStrip(SubSeq(s, 1, Len(s) - 1))
  ELSE s

\* str.strip()
Strip(s) == RStrip(LStrip(s))

\* s[i:].startswith(pat)
StartsWithAt(s, pat, i) ==
  /\ i + Len(pat) - 1 <= Len(s)
  /\ SubSeq(s, i, i + Len(pat) - 1) = pat

\* str.find(pat, from) with 1-based positions; 0 when absent
RECURSIVE Find(_, _, _)
Find(s, pat, from) ==
  IF from + Len(pat) - 1 > Len(s) THEN 0
  ELSE IF StartsWithAt(s, pat, from) THEN from
  ELSE Find(s, pat, from + 1)

\* str.split(sep): the pieces between the non-overlapping occurrences of
\* sep, scanned left to right; always at least one piece
RECURSIVE Split(_, _)
Split(s, sep) ==
  LET k == Find(s, sep, 1)
  IN IF k = 0 THEN <<s>>
     ELSE <<SubSeq(s, 1, k - 1)>> \o Split(SubSeq(s, k + Len(sep), Len(s)), sep)

\* sep.join(parts)
RECURSIVE Join(_, _)
Join(parts, sep) ==
  IF parts = <<>> THEN <<>>
  ELSE IF Len(parts) = 1 THEN parts[1]
  ELSE parts[1] \o sep \o Join(Tail(parts), sep)

\* str.replace(pat, rep)
Replace(s, pat, rep) == Join(Split(s, pat), rep)

\* os.path.basename(p): what follows the last "/"
Basename(p) ==
  LET parts == Split(p, <<"/">>) IN parts[Len(parts)]

\* "x in s" for strings
Contains(s, pat) == Find(s, pat, 1) # 0

\* str.ljust / "{:<w}": pads on the right, never truncates
RECURSIVE Spaces(_)
Spaces(n) == IF n <= 0 THEN <<>> ELSE <<" ">> \o Spaces(n - 1)

LJust(s, w) == s \o Spaces(w - Len(s))

\* --------------------------------------------------------- python values
DigitChars == <<"0", "1", "2", "3", "4", "5", "6", "7", "8", "9">>

IsDigit(c) == \E k \in 1..10 : DigitChars[k] = c

DigitVal(c) == (CHOOSE k \in 1..10 : DigitChars[k] = c) - 1

IsNumber(s) == s # <<>> /\ \A k \in 1..Len(s) : IsDigit(s[k])

RECURSIVE ParseNat(_)
ParseNat(s) ==
  IF s = <<>> THEN 0
  ELSE 10 * ParseNat(SubSeq(s, 1, Len(s) - 1)) + DigitVal(s[Len(s)])

RECURSIVE Digits(_)
Digits(n) ==
  IF n < 10 THEN <<DigitChars[n + 1]>>
  ELSE Digits(n \div 10) \o <<DigitChars[(n % 10) + 1]>>

PyNone == [t |-> "none", v |-> <<>>]
PyInt(n) == [t |-> "int", v |-> Digits(n)]
PyStr(s) == [t |-> "str", v |-> s]

\* variant: compares what is written and not the type, as if the parser
\* converted the flag (type=int)
PyEqValue(a, b) == a.v = b.v

\* a == b: values of different types are never equal ("60" == 60 is False)
PyEq(a, b) == a.t = b.t /\ a.v = b.v

\* bool(x), as in "if user:"
Truthy(x) ==
  CASE x.t = "none" -> FALSE
    [] x.t = "int" -> ParseNat(x.v) # 0
    [] OTHER -> x.v # <<>>

\* int(x): [ok, n]; int(None) is a TypeError, int("abc") a ValueError
IntOf(x) ==
  IF x.t = "int" THEN [ok |-> TRUE, n |-> ParseNat(x.v)]
  ELSE IF x.t = "str" /\ IsNumber(Strip(x.v))
       THEN [ok |-> TRUE, n |-> ParseNat(Strip(x.v))]
  ELSE [ok |-> FALSE, n |-> 0]

\* -------------------------------------------------- arguments and config
\* command line: each flag is <<>> when not given, <<value>> when given
\* parser.get_default(name)
ParserDefault == [user |-> PyNone, width |-> PyInt(DefaultWidth)]

\* parser.parse_args(): a flag that is given is stored as the string typed
\* (no type= conversion), a flag that is not given as its default
ParseArgs(cmdline) ==
  [name \in {"user", "width"} |->
     IF cmdline[name] = <<>> THEN ParserDefault[name] ELSE PyStr(cmdline[name][1])]

\* the document yaml.load returns: each key is <<>> when absent
HasKey(cfg, name) == cfg[name] # <<>>

get_arg(name, pargs, cfg) ==
  IF HasKey(cfg, name) /\ PyEq(pargs[name], ParserDefault[name])
  THEN cfg[name][1]
  ELSE pargs[name]

\* ------------------------------------------------------------------ dates
MonthTokens ==
  { Digits(m) : m \in 1..12 } \cup { <<"0">> \o Digits(m) : m \in 1..9 }

DayTokens ==
  { Digits(d) : d \in 1..31 } \cup { <<"0">> \o Digits(d) : d \in 1..9 }
    \cup { <<" ">> \o Digits(d) : d \in 1..9 }

IsLeap(y) == (y % 4 = 0 /\ y % 100 # 0) \/ y % 400 = 0

DaysIn(y, m) ==
  IF m = 2 THEN (IF IsLeap(y) THEN 29 ELSE 28)
  ELSE IF m \in {4, 6, 9, 11} THEN 30 ELSE 31

\* datetime.datetime.strptime(s, "%Y-%m-%d"): [ok, ord]; ord orders the
\* parsed dates as datetime orders them
Strptime(s) ==
  LET parts == Split(s, <<"-">>)
      bad == [ok |-> FALSE, ord |-> 0]
  IN IF Len(parts) # 3 THEN bad
     ELSE IF ~ (Len(parts[1]) = 4 /\ IsNumber(parts[1])) THEN bad
     ELSE IF parts[2] \notin MonthTokens \/ parts[3] \notin DayTokens THEN bad
     ELSE LET y == ParseNat(parts[1])
              m == ParseNat(parts[2])
              d == ParseNat(LStrip(parts[3]))
          IN IF y < 1 \/ d > DaysIn(y, m) THEN bad
             ELSE [ok |-> TRUE, ord |-> y * 10000 + m * 100 + d]

\* --------------------------------------------------------------- textwrap
Lowercase ==
  {"a", "b", "c", "d", "e", "f", "g", "h", "i", "j", "k", "l", "m",
   "n", "o", "p", "q", "r", "s", "t", "u", "v", "w", "x", "y", "z"}

\* TextWrapper._munge_whitespace: every whitespace character becomes a space
Munge(s) == [k \in 1..Len(s) |-> IF s[k] \in Whitespace THEN " " ELSE s[k]]

IsBlank(chunk) == \A k \in 1..Len(chunk) : chunk[k] = " "

\* length of the run of spaces (blank = TRUE) or non-spaces that starts s
RECURSIVE RunLen(_, _)
RunLen(s, blank) ==
  IF s = <<>> \/ ((Head(s) = " ") # blank) THEN 0
  ELSE 1 + RunLen(Tail(s), blank)

\* TextWrapper._split: the maximal runs of spaces and of non-spaces
RECURSIVE Chunks(_)
Chunks(s) ==
  IF s = <<>> THEN <<>>
  ELSE LET n == RunLen(s, Head(s) = " ")
       IN <<SubSeq(s, 1, n)>> \o Chunks(SubSeq(s, n + 1, Len(s)))

\* sentence_end_re: a lowercase letter, one of . ! ?, an optional quote, end
EndsSentence(chunk) ==
  LET n == Len(chunk)
      core == IF n >= 1 /\ chunk[n] \in {"\"", "'"} THEN SubSeq(chunk, 1, n - 1)
              ELSE chunk
      m == Len(core)
  IN m >= 2 /\ core[m] \in {".", "!", "?"} /\ core[m - 1] \in Lowercase

\* TextWrapper._fix_sentence_endings: one space after a sentence end is two
FixSentenceEndings(chunks) ==
  [k \in 1..Len(chunks) |->
     IF k > 1 /\ chunks[k] = <<" ">> /\ EndsSentence(chunks[k - 1])
     THEN <<" ", " ">> ELSE chunks[k]]

\* how many leading chunks fit in what is left of the line
RECURSIVE Fits(_, _)
Fits(chunks, room) ==
  IF chunks = <<>> \/ Len(Head(chunks)) > room THEN 0
  ELSE 1 + Fits(Tail(chunks), room - Len(Head(chunks)))

RECURSIVE Concat(_)
Concat(chunks) == IF chunks = <<>> THEN <<>> ELSE Head(chunks) \o Concat(Tail(chunks))

\* TextWrapper._wrap_chunks with drop_whitespace and break_long_words, for
\* text without hyphens; haveLines is "lines" being non-empty.  A chunk
\* longer than the width is cut at what is left of the line (possibly
\* nothing), and one trailing blank or empty chunk of the line is dropped
RECURSIVE WrapChunks(_, _, _)
WrapChunks(chunks0, width, haveLines) ==
  IF chunks0 = <<>> THEN <<>>
  ELSE
    LET chunks == IF IsBlank(chunks0[1]) /\ haveLines THEN Tail(chunks0) ELSE chunks0
        n == Fits(chunks, width)
        taken == SubSeq(chunks, 1, n)
        rest == SubSeq(chunks, n + 1, Len(chunks))
        cur_len == Len(Concat(taken))
        long == rest # <<>> /\ Len(rest[1]) > width
        space_left == width - cur_len
        cur_line == IF long THEN Append(taken, SubSeq(rest[1], 1, space_left))
                    ELSE taken
        left == IF long
                THEN <<SubSeq(rest[1], space_left + 1, Len(rest[1]))>> \o Tail(rest)
                ELSE rest
        kept == IF cur_line # <<>> /\ IsBlank(cur_line[Len(cur_line)])
                THEN SubSeq(cur_line, 1, Len(cur_line) - 1) ELSE cur_line
    IN IF kept # <<>>
       THEN <<Concat(kept)>> \o WrapChunks(left, width, TRUE)
       ELSE WrapChunks(left, width, haveLines)

\* TextWrapper(width, fix_sentence_endings=True).wrap(text), for width > 0
Wrap(text, width) ==
  WrapChunks(FixSentenceEndings(Chunks(Munge(text))), width, FALSE)

\* ------------------------------------------------- the machine being read
\* The directories that exist, the git repositories in them and the
\* commits git reports for each, oldest first as --reverse lists them.
Home == <<"/", "h">>
StartDir == <<"/", "w">>

DirA == <<"/", "r", "/", "a">>
DirP == <<"/", "h", "/", "p">>
DirN == <<"/", "w", "/", "n">>
DirNN == <<"/", "w", "/", "n", "/", "n">>
DirB == <<"/", "w", "/", "b">>
DirC == <<"/", "r", "/", "c">>
DirX == <<"/", "r", "/", "x">>
DirK == <<"/", "r", "/", "k">>
DirV == <<"/", "r", "/", "v">>

ExistingDirs == {Home, StartDir, DirA, DirP, DirN, DirNN, DirB, DirC, DirX, DirK, DirV}

Date0101 == <<"2", "0", "2", "4", "-", "0", "1", "-", "0", "1">>
Date0105 == <<"2", "0", "2", "4", "-", "0", "1", "-", "0", "5">>
Date1231 == <<"2", "0", "2", "3", "-", "1", "2", "-", "3", "1">>

Commit(ad, an, s, b) == [ad |-> ad, an |-> an, D |-> <<>>, s |-> s, b |-> b]

NoRepo == [repo |-> FALSE, remote |-> <<>>, commits |-> <<>>]

RepoN ==
  [repo |-> TRUE, remote |-> <<<<"g", ":", "u", "/", "n", ".", "g", "i", "t", "\n">>>>,
   commits |-> << Commit(Date0101, <<"a", "l">>, <<"n", "n">>, <<"o", "k">>),
                  Commit(Date0105, <<"b", "o", "b">>, <<>>, <<>>) >>]

\* what git finds from a directory: DirNN lies inside the work tree of DirN
GitWorld(dir) ==
  CASE dir = DirA ->
         [repo |-> TRUE, remote |-> <<<<"g", ":", "u", "/", "a", "a", ".", "g", "i", "t", "\n">>>>,
          commits |-> << Commit(Date0105, <<"a", "l">>, <<"i", "n", "i", "t">>, <<>>),
                         Commit(Date0101, <<"b", "o", "b">>, <<"f", "x">>, <<"*", " ", "a", "b", " ", "c", "d", " ", "e", "f", "\n", "*", " ", "g", "\n">>) >>]
    [] dir = DirP ->
         [repo |-> TRUE, remote |-> <<<<"h", "/", "p", "\n">>>>,
          commits |-> << Commit(Date0105, <<"a", "l">>, <<"p">>, <<"h", "i", " ", "*", " ", "a", "b", "\n">>),
                         Commit(Date0105, <<"a", "l">>, <<"q", "q", "q">>, <<"*", " ", "a", "b", "c", "d", "e", "f", "g", "h", "i", "\n">>) >>]
    [] dir \in {DirN, DirNN} -> RepoN
    [] dir = DirB ->
         [repo |-> TRUE, remote |-> <<>>,
          commits |-> << Commit(Date1231, <<"a", "l">>, <<"b">>, <<>>) >>]
    [] dir = DirC ->
         [repo |-> TRUE, remote |-> <<>>,
          commits |-> << Commit(Date1231, <<"a", "l">>, <<"s", "u", "b">>, <<>>) >>]
    [] dir = DirK ->
         [repo |-> TRUE, remote |-> <<>>,
          commits |-> << Commit(Date0101, <<"a", "l">>, <<"k">>, <<"t">> \o SEP1 \o <<"q">>) >>]
    [] dir = DirV ->
         [repo |-> TRUE, remote |-> <<>>,
          commits |-> << Commit(Date0101, <<"a", "l">>, <<"v">>,
                                <<"t">> \o SEP1 \o <<"q">> \o SEP2 \o <<"u">> \o SEP2
                                  \o SEP2 \o <<"s">> \o SEP2 \o <<"b">>) >>]
    [] OTHER -> NoRepo

\* the repository paths a configuration file may list
PathA == <<"/", "r", "/", "a">>
PathHomeP == <<"~", "/", "p">>
PathRelN == <<"n">>
PathRelB == <<"b">>
PathSlashC == <<"/", "r", "/", "c", "/">>
PathX == <<"/", "r", "/", "x">>
PathZ == <<"/", "r", "/", "z">>
PathK == <<"/", "r", "/", "k">>
PathV == <<"/", "r", "/", "v">>

ConfigPaths ==
  {PathA, PathHomeP, PathRelN, PathRelB, PathSlashC, PathX, PathZ, PathK, PathV}

\* ------------------------------------------------------ operating system
\* os.path.expanduser: a leading "~" alone or before "/" is the home folder
expanduser(path) ==
  IF path # <<>> /\ path[1] = "~" /\ (Len(path) = 1 \/ path[2] = "/")
  THEN Home \o Tail(path)
  ELSE path

RECURSIVE DropSlashes(_)
DropSlashes(p) ==
  IF Len(p) > 1 /\ p[Len(p)] = "/" THEN DropSlashes(SubSeq(p, 1, Len(p) - 1)) ELSE p

\* os.chdir(path) from working directory cwd: a relative path is resolved
\* against cwd; fails when the directory does not exist (then cwd is kept)
chdir(cwd, path) ==
  LET target == IF path = <<>> THEN <<>>
                ELSE IF path[1] = "/" THEN DropSlashes(path)
                ELSE DropSlashes(cwd \o <<"/">> \o path)
  IN IF target \in ExistingDirs
     THEN [ok |-> TRUE, cwd |-> target]
     ELSE [ok |-> FALSE, cwd |-> cwd]

\* ------------------------------------------------------------------- git
\* git config --get remote.origin.url, run in cwd: the URL and a newline,
\* or a non-zero exit (CalledProcessError) when there is none
GitRemoteUrl(cwd) ==
  LET g == GitWorld(cwd)
  IN IF g.repo /\ g.remote # <<>>
     THEN [ok |-> TRUE, out |-> g.remote[1]]
     ELSE [ok |-> FALSE, out |-> <<>>]

\* --author=<pattern>: the commits whose author matches the pattern
AuthorMatches(commit, author) == Contains(commit.an, author)

\* --pretty=format: of one commit; pretty_format of get_repo_logs
PrettyFormat(c) ==
  Join(<<c.ad, c.an, c.D, c.s, c.b>>, SEP2) \o SEP1

\* git log --pretty=format:... --date=short --reverse --all [--author=..],
\* run in cwd: the formatted commits with a newline between them, or a
\* non-zero exit (CalledProcessError) outside a repository
GitLog(cwd, author) ==
  LET g == GitWorld(cwd)
      shown == IF author = <<>> THEN g.commits
               ELSE SelectSeq(g.commits, LAMBDA c : AuthorMatches(c, author[1]))
  IN IF g.repo
     THEN [ok |-> TRUE,
           out |-> Join([k \in 1..Len(shown) |-> PrettyFormat(shown[k])], <<"\n">>)]
     ELSE [ok |-> FALSE, out |-> <<>>]

\* ------------------------------------------------------------- functions
\* The result of a call: whether it raised, what it returned, and the
\* working directory of the process when it is over.
Raised(cwd) == [raised |-> TRUE, out |-> <<>>, cwd |-> cwd]
Returned(out, cwd) == [raised |-> FALSE, out |-> out, cwd |-> cwd]

pretty_keys == <<"date", "user", "desc", "subject", "body">>

\* {key: part.strip() for key, part in zip(pretty_keys, line.split(SEP2))}
ParseLine(line) ==
  LET parts == Split(line, SEP2)
      n == IF Len(parts) < Len(pretty_keys) THEN Len(parts) ELSE Len(pretty_keys)
  IN [key \in {pretty_keys[k] : k \in 1..n} |->
        Strip(parts[CHOOSE k \in 1..n : pretty_keys[k] = key])]

\* the body of get_repo_logs, run in cwd; author is <<>> or <<user>>
get_repo_logs_body(cwd, repo_path, author) ==
  LET git == GitLog(cwd, author)
  IN IF ~ git.ok THEN Raised(cwd)
     ELSE LET lines == Split(git.out, SEP1)
          IN Returned([k \in 1..Len(lines) |-> ParseLine(lines[k])], cwd)

DotGit == <<".", "g", "i", "t">>

\* the body of get_repo_name, run in cwd: it changes directory to
\* repo_path once more, outside the try
get_repo_name_body(cwd, repo_path, unused) ==
  LET there == chdir(cwd, repo_path)
  IN IF ~ there.ok THEN Raised(cwd)
     ELSE LET git == GitRemoteUrl(there.cwd)
              out == IF git.ok THEN Basename(git.out) ELSE Basename(repo_path)
          IN Returned(Strip(Replace(out, DotGit, <<>>)), chdir(there.cwd, cwd).cwd)

\* the function a wrapper of in_folder wraps, by name
Wrapped(fn, cwd, path, arg) ==
  IF fn = "get_repo_logs" THEN get_repo_logs_body(cwd, path, arg)
  ELSE get_repo_name_body(cwd, path, arg)

\* the wrapper in_folder builds around fn; arg is what fn needs besides the
\* path.  There is no try/finally: when chdir or fn raises, the second
\* chdir is not reached
in_folder(fn, current_path, path, arg) ==
  LET there == chdir(current_path, path)
  IN IF ~ there.ok THEN Raised(current_path)
     ELSE LET r == Wrapped(fn, there.cwd, path, arg)
          IN IF r.raised THEN r
             ELSE Returned(r.out, chdir(r.cwd, current_path).cwd)

\* @in_folder def get_repo_logs
get_repo_logs(current_path, repo_path, author) ==
  in_folder("get_repo_logs", current_path, repo_path, author)

\* @in_folder def get_repo_name
get_repo_name(current_path, repo_path) ==
  in_folder("get_repo_name", current_path, repo_path, <<>>)

\* ------------------------------------------------------------------ main
Keys == {"date", "user", "desc", "subject", "body", "name"}

\* variant: the filter without the length test
RetainedAny(log) == "date" \in DOMAIN log

\* the filter of the comprehension that builds new_logs
Retained(log) == "date" \in DOMAIN log /\ Len(log["date"]) > 0

\* log["name"] = name
WithName(log, repo_name) ==
  [key \in DOMAIN log \cup {"name"} |-> IF key = "name" THEN repo_name ELSE log[key]]

\* variant: the tally keeps the last length seen and not the largest
TallyOneLast(lengths, log) ==
  [key \in Keys |-> IF key \in DOMAIN log THEN Len(log[key]) ELSE lengths[key]]

\* for key, val in log.items(): max_lengths[key] = max(max_lengths[key], len(val))
TallyOne(lengths, log) ==
  [key \in Keys |->
     IF key \in DOMAIN log THEN Max(lengths[key], Len(log[key])) ELSE lengths[key]]

\* the loop over new_logs: names and tallies each record, then reads its
\* body; a record without a body is a KeyError, after its own tally
RECURSIVE Tally(_, _, _)
Tally(recs, repo_name, lengths) ==
  IF recs = <<>> THEN [ok |-> TRUE, lengths |-> lengths, logs |-> <<>>]
  ELSE LET log == WithName(recs[1].log, repo_name)
           tallied == TallyOne(lengths, log)
       IN IF "body" \notin DOMAIN log
          THEN [ok |-> FALSE, lengths |-> tallied, logs |-> <<>>]
          ELSE LET more == Tally(Tail(recs), repo_name, tallied)
               IN [ok |-> more.ok, lengths |-> more.lengths,
                   logs |-> <<[log |-> log, src |-> recs[1].src]>> \o more.logs]

\* the sort key: strptime of the date
SortKey(rec) == Strptime(rec.log["date"])

\* variant: x goes before the elements of equal key (an unstable sort)
RECURSIVE InsertSortedUnstable(_, _)
InsertSortedUnstable(sorted, x) ==
  IF sorted = <<>> THEN <<x>>
  ELSE IF SortKey(x).ord <= SortKey(Head(sorted)).ord THEN <<x>> \o sorted
  ELSE <<Head(sorted)>> \o InsertSortedUnstable(Tail(sorted), x)

\* position of x in a list sorted by key: after every element whose key is
\* not greater (list.sort is stable)
RECURSIVE InsertSorted(_, _)
InsertSorted(sorted, x) ==
  IF sorted = <<>> THEN <<x>>
  ELSE IF SortKey(x).ord < SortKey(Head(sorted)).ord THEN <<x>> \o sorted
  ELSE <<Head(sorted)>> \o InsertSorted(Tail(sorted), x)

\* logs.sort(key=..., reverse=False), when every key can be computed
RECURSIVE SortLogsByDate(_)
SortLogsByDate(ls) ==
  IF ls = <<>> THEN <<>>
  ELSE InsertSorted(SortLogsByDate(SubSeq(ls, 1, Len(ls) - 1)), ls[Len(ls)])

\* meta_template without the subject: the padded columns and their widths
MetaTemplate(usr, lengths) ==
  LET cols == IF Truthy(usr) THEN <<"date", "name">> ELSE <<"date", "user", "name">>
  IN [k \in 1..Len(cols) |-> [key |-> cols[k], width |-> lengths[cols[k]]]]

\* template.format(**log): the padded columns and the subject, joined by
\* two spaces
FormatSummary(tmpl, log) ==
  Join([k \in 1..Len(tmpl) |-> LJust(log[tmpl[k].key], tmpl[k].width)] \o <<log["subject"]>>,
       <<" ", " ">>)

\* body_template.format(s, line.replace("  ", " ", 500))
FormatBody(margin, s, line) ==
  Spaces(margin) \o <<" ">> \o s \o <<" ">> \o Replace(line, <<" ", " ">>, <<" ">>)

BulletMarker == <<"*", " ">>

\* s = "*" if idx == 0 else " "
Mark(idx) == IF idx = 0 THEN <<"*">> ELSE <<" ">>

\* the lines printed beneath the summary line of a record, with the section
\* and the 0-based index within the section that each comes from
BodyLines(rec, margin, body_width) ==
  LET sections == Split(rec.log["body"], BulletMarker)
      wrapped == [n \in 1..Len(sections) |-> Wrap(sections[n], body_width)]
      OfSection(n) ==
        [m \in 1..Len(wrapped[n]) |->
           [kind |-> "body", src |-> rec.src, section |-> n, idx |-> m - 1,
            mark |-> Mark(m - 1),
            text |-> FormatBody(margin, Mark(m - 1), wrapped[n][m])]]
  IN Concat([n \in 1..Len(sections) |-> OfSection(n)])

VARIABLES
  cmdline,      \* the flags given on the command line
  cfgfile,      \* the configuration file as found on disk
  pc,           \* where the program is
  args,         \* parser.parse_args()
  config,       \* yaml.load(f)
  repo_list,
  user,
  width,
  i,            \* 1-based position of the loop in repo_list
  name,
  logs,
  max_lengths,
  template,
  margin,       \* number of spaces body_template starts with
  printed,      \* how many records of logs have been printed
  output,       \* the lines printed so far
  cwd,          \* the working directory of the process
  calls,        \* history: the calls of get_repo_name and get_repo_logs
  fetched,      \* history: every record get_repo_logs returned, as named
  error         \* the exception that ended the run, if any

vars == <<cmdline, cfgfile, pc, args, config, repo_list, user, width, i, name,
          logs, max_lengths, template, margin, printed, output, cwd, calls, fetched, error>>

inputs == <<cmdline, cfgfile>>

NoError == [type |-> "", at |-> ""]

Absent == [kind |-> "map", repos |-> <<>>, user |-> <<>>, width |-> <<>>]

RepoLists == UNION { [1..n -> ConfigPaths] : n \in 0..MaxRepos }

FlagUser == {<<>>, <<<<>>>>, <<<<"b", "o", "b">>>>}
FlagWidth == {<<>>, <<<<"6", "0">>>>, <<<<"3">>>>}

ConfigFiles ==
  { [Absent EXCEPT !.kind = k] : k \in {"unreadable", "unparseable", "null"} }
    \cup [kind : {"map"},
          repos : {<<>>} \cup { <<l>> : l \in RepoLists },
          user : {<<>>, <<PyStr(<<"a", "l">>)>>},
          width : {<<>>, <<PyInt(7)>>, <<PyStr(<<"x">>)>>}]

Init ==
  /\ cmdline \in [user : FlagUser, width : FlagWidth]
  /\ cfgfile \in ConfigFiles
  /\ pc = "start"
  /\ args = ParserDefault
  /\ config = [Absent EXCEPT !.kind = "unset"]
  /\ repo_list = <<>>
  /\ user = PyNone
  /\ width = 0
  /\ i = 0
  /\ name = <<>>
  /\ logs = <<>>
  /\ max_lengths = [key \in Keys |-> 0]
  /\ template = <<>>
  /\ margin = 0
  /\ printed = 0
  /\ output = <<>>
  /\ cwd = StartDir
  /\ calls = <<>>
  /\ fetched = <<>>
  /\ error = NoError

Fatal(type, at) ==
  /\ pc' = "fatal"
  /\ error' = [type |-> type, at |-> at]

\* variant: config.get("repos", []), a missing key is an empty list
GetReposDefault(cfg) ==
  [ok |-> TRUE, repos |-> IF HasKey(cfg, "repos") THEN cfg.repos[1] ELSE <<>>]

\* config["repos"] of the loaded document: [ok, repos]; a document without
\* the key is a KeyError
GetRepos(cfg) ==
  IF HasKey(cfg, "repos") THEN [ok |-> TRUE, repos |-> cfg.repos[1]]
  ELSE [ok |-> FALSE, repos |-> <<>>]

\* args = parser.parse_args(); open and load the configuration file; read
\* the list of repositories
LoadConfig ==
  /\ pc = "start"
  /\ args' = ParseArgs(cmdline)
  /\ UNCHANGED <<inputs, user, width, i, name, logs, max_lengths, template,
                 margin, printed, output, cwd, calls, fetched>>
  /\ CASE cfgfile.kind = "unreadable" ->
            /\ Fatal("OSError", "open")
            /\ UNCHANGED <<config, repo_list>>
       [] cfgfile.kind = "unparseable" ->
            /\ Fatal("YAMLError", "yaml.load")
            /\ UNCHANGED <<config, repo_list>>
       [] cfgfile.kind = "null" ->
            /\ config' = cfgfile
            /\ Fatal("TypeError", "config[repos]")
            /\ UNCHANGED repo_list
       [] OTHER ->
            /\ config' = cfgfile
            /\ IF GetRepos(cfgfile).ok
               THEN /\ repo_list' = GetRepos(cfgfile).repos
                    /\ pc' = "options"
                    /\ UNCHANGED error
               ELSE /\ Fatal("ValueError", "config[repos]")
                    /\ UNCHANGED repo_list

\* user and width from the command line or the configuration; the wrappers
ResolveOptions ==
  /\ pc = "options"
  /\ LET w == IntOf(get_arg("width", args, config))
     IN IF w.ok
        THEN /\ user' = get_arg("user", args, config)
             /\ width' = w.n
             /\ i' = 1
             /\ pc' = "loop"
             /\ UNCHANGED error
        ELSE /\ user' = get_arg("user", args, config)
             /\ Fatal("ValueError", "int(width)")
             /\ UNCHANGED <<width, i>>
  /\ UNCHANGED <<inputs, args, config, repo_list, name, logs, max_lengths,
                 template, margin, printed, output, cwd, calls, fetched>>

\* get_repo_logs(repo_dir, user=user): --author is added "if user:"
AuthorOption(usr) == IF Truthy(usr) THEN <<usr.v>> ELSE <<>>

CallRecord(fn, path, r) ==
  [fn |-> fn, repo |-> i, path |-> path, from |-> cwd, to |-> r.cwd,
   raised |-> r.raised, name |-> IF fn = "get_repo_name" THEN r.out ELSE <<>>]

\* repo_dir = os.path.expanduser(repo); name = get_repo_name(repo_dir)
ResolveName ==
  /\ pc = "loop"
  /\ i <= Len(repo_list)
  /\ LET repo_dir == expanduser(repo_list[i])
         r == get_repo_name(cwd, repo_dir)
     IN /\ cwd' = r.cwd
        /\ calls' = Append(calls, CallRecord("get_repo_name", repo_dir, r))
        /\ IF r.raised
           THEN /\ Fatal("FileNotFoundError", "get_repo_name")
                /\ UNCHANGED name
           ELSE /\ name' = r.out
                /\ pc' = "fetch"
                /\ UNCHANGED error
  /\ UNCHANGED <<inputs, args, config, repo_list, user, width, i, logs,
                 max_lengths, template, margin, printed, output, fetched>>

\* new_logs = [log for log in get_repo_logs(...) if ...], with the place of
\* each record in what the fetcher returned
NewLogs(out) ==
  SelectSeq([k \in 1..Len(out) |-> [log |-> out[k], src |-> <<i, k>>]],
            LAMBDA rec : Retained(rec.log))

Fetched(out) ==
  [k \in 1..Len(out) |-> [log |-> WithName(out[k], name), src |-> <<i, k>>]]

\* variant: a failed fetch is skipped and the loop goes on
FetchLogsSkipFailed ==
  /\ pc = "fetch"
  /\ LET repo_dir == expanduser(repo_list[i])
         r == get_repo_logs(cwd, repo_dir, AuthorOption(user))
         t == Tally(NewLogs(r.out), name, max_lengths)
     IN /\ cwd' = r.cwd
        /\ calls' = Append(calls, CallRecord("get_repo_logs", repo_dir, r))
        /\ IF r.raised \/ ~ t.ok
           THEN UNCHANGED <<logs, max_lengths, fetched>>
           ELSE /\ max_lengths' = t.lengths
                /\ fetched' = fetched \o Fetched(r.out)
                /\ logs' = logs \o t.logs
        /\ i' = i + 1
        /\ pc' = "loop"
  /\ UNCHANGED <<inputs, args, config, repo_list, user, width, name,
                 template, margin, printed, output, error>>

\* the rest of the loop body: fetch, filter, name, tally, accumulate
FetchLogs ==
  /\ pc = "fetch"
  /\ LET repo_dir == expanduser(repo_list[i])
         r == get_repo_logs(cwd, repo_dir, AuthorOption(user))
     IN /\ cwd' = r.cwd
        /\ calls' = Append(calls, CallRecord("get_repo_logs", repo_dir, r))
        /\ IF r.raised
           THEN /\ Fatal("CalledProcessError", "get_repo_logs")
                /\ UNCHANGED <<logs, max_lengths, i, fetched>>
           ELSE LET t == Tally(NewLogs(r.out), name, max_lengths)
                IN /\ max_lengths' = t.lengths
                   /\ fetched' = fetched \o Fetched(r.out)
                   /\ IF t.ok
                      THEN /\ logs' = logs \o t.logs
                           /\ i' = i + 1
                           /\ pc' = "loop"
                           /\ UNCHANGED error
                      ELSE /\ Fatal("KeyError", "log[body]")
                           /\ UNCHANGED <<logs, i>>
  /\ UNCHANGED <<inputs, args, config, repo_list, user, width, name,
                 template, margin, printed, output>>

\* logs.sort(key=strptime of the date): a date that does not parse is a
\* ValueError and the list is left as it was
SortLogs ==
  /\ pc = "loop"
  /\ i > Len(repo_list)
  /\ IF \A k \in 1..Len(logs) : SortKey(logs[k]).ok
     THEN /\ logs' = SortLogsByDate(logs)
          /\ pc' = "template"
          /\ UNCHANGED error
     ELSE /\ Fatal("ValueError", "strptime")
          /\ UNCHANGED logs
  /\ UNCHANGED <<inputs, args, config, repo_list, user, width, i, name,
                 max_lengths, template, margin, printed, output, cwd, calls,
                 fetched>>

\* if len(logs) > 0: build template and body_template
BuildTemplate ==
  /\ pc = "template"
  /\ IF Len(logs) > 0
     THEN LET tmpl == MetaTemplate(user, max_lengths)
              fake_log == [logs[1].log EXCEPT !["subject"] = <<>>]
          IN /\ template' = tmpl
             /\ margin' = Len(FormatSummary(tmpl, fake_log))
             /\ printed' = 0
             /\ pc' = "print"
     ELSE /\ pc' = "done"
          /\ UNCHANGED <<template, margin, printed>>
  /\ UNCHANGED <<inputs, args, config, repo_list, user, width, i, name, logs,
                 max_lengths, output, cwd, calls, fetched, error>>

SummaryLine(rec) ==
  [kind |-> "summary", src |-> rec.src, section |-> 0, idx |-> 0,
   mark |-> <<>>, text |-> FormatSummary(template, rec.log)]

\* one turn of "for log in logs": the summary line, then the wrapped body;
\* body_wrapper has width - 3 columns and wrap raises when that is not
\* positive
PrintLog ==
  /\ pc = "print"
  /\ printed < Len(logs)
  /\ LET rec == logs[printed + 1]
     IN IF Len(rec.log["body"]) > 2
        THEN IF width - 3 <= 0
             THEN /\ output' = Append(output, SummaryLine(rec))
                  /\ Fatal("ValueError", "wrap")
                  /\ UNCHANGED printed
             ELSE /\ output' = Append(output, SummaryLine(rec))
                               \o BodyLines(rec, margin, width - 3)
                  /\ printed' = printed + 1
                  /\ pc' = IF printed + 1 = Len(logs) THEN "done" ELSE "print"
                  /\ UNCHANGED error
        ELSE /\ output' = Append(output, SummaryLine(rec))
             /\ printed' = printed + 1
             /\ pc' = IF printed + 1 = Len(logs) THEN "done" ELSE "print"
             /\ UNCHANGED error
  /\ UNCHANGED <<inputs, args, config, repo_list, user, width, i, name, logs,
                 max_lengths, template, margin, cwd, calls, fetched>>

Next ==
  \/ LoadConfig
  \/ ResolveOptions
  \/ ResolveName
  \/ FetchLogs
  \/ SortLogs
  \/ BuildTemplate
  \/ PrintLog

Spec == Init /\ [][Next]_vars

\* =============================================================== claims
AfterSort ==
  pc \in {"template", "print", "done"} \/ (pc = "fatal" /\ error.at = "wrap")

Summaries == SelectSeq(output, LAMBDA line : line.kind = "summary")

BodyOutput == SelectSeq(output, LAMBDA line : line.kind = "body")

\* configuration order, then the order the fetcher returned
Precedes(s1, s2) == s1[1] < s2[1] \/ (s1[1] = s2[1] /\ s1[2] < s2[2])

\* a date written YYYY-MM-DD, and the number that orders such dates
WellFormedDate(d) ==
  /\ Len(d) = 10
  /\ d[5] = "-" /\ d[8] = "-"
  /\ \A k \in {1, 2, 3, 4, 6, 7, 9, 10} : IsDigit(d[k])

DateNumber(d) ==
  ParseNat(SubSeq(d, 1, 4)) * 10000 + ParseNat(SubSeq(d, 6, 7)) * 100
    + ParseNat(SubSeq(d, 9, 10))

HasDate(log) == "date" \in DOMAIN log /\ Len(log["date"]) > 0

RetainedSrcs == { fetched[k].src : k \in { n \in 1..Len(fetched) : HasDate(fetched[n].log) } }

\* C1: once the logs are sorted, when every retained record has a
\* well-formed date, the merged list holds exactly the retained records,
\* is non-decreasing by date, keeps records of equal date in the order of
\* the concatenation (configuration order, then fetch order), and the
\* summary lines are printed in the order of that list.
C1_SortedStable ==
  (AfterSort /\ \A k \in 1..Len(logs) : WellFormedDate(logs[k].log["date"])) =>
    /\ { logs[k].src : k \in 1..Len(logs) } = RetainedSrcs
    /\ Len(logs) = Cardinality(RetainedSrcs)
    /\ \A a, b \in 1..Len(logs) :
         a < b =>
           LET da == DateNumber(logs[a].log["date"])
               db == DateNumber(logs[b].log["date"])
           IN da <= db /\ (da = db => Precedes(logs[a].src, logs[b].src))
    /\ Len(Summaries) <= Len(logs)
    /\ \A k \in 1..Len(Summaries) : Summaries[k].src = logs[k].src
    /\ pc = "done" => Len(Summaries) = Len(logs)

\* a finished report where the sort moved a record forward and where two
\* records of different repositories have the same date
C1_Witness ==
  /\ pc = "done"
  /\ \E a, b \in 1..Len(logs) :
       a < b /\ Precedes(logs[b].src, logs[a].src)
  /\ \E a, b \in 1..Len(logs) :
       /\ a < b
       /\ logs[a].log["date"] = logs[b].log["date"]
       /\ logs[a].src[1] # logs[b].src[1]
  /\ \E a, b \in 1..Len(logs) :
       /\ a < b
       /\ logs[a].log["date"] = logs[b].log["date"]
       /\ logs[a].src[1] = logs[b].src[1]

\* C2: every call of get_repo_name or get_repo_logs leaves the working
\* directory where it found it, also when it raises.
C2_CwdRestored ==
  \A k \in 1..Len(calls) : calls[k].to = calls[k].from

\* the remote lookup of a call fails: the directory cannot be entered or
\* git has no remote URL there
LookupFails(call) ==
  LET there == chdir(call.from, call.path)
  IN ~ there.ok \/ ~ GitRemoteUrl(there.cwd).ok

\* C3: get_repo_name never raises, and returns the last segment of the
\* path whenever the remote lookup fails.
C3_NameNeverRaises ==
  \A k \in 1..Len(calls) :
    calls[k].fn = "get_repo_name" =>
      /\ ~ calls[k].raised
      /\ LookupFails(calls[k]) => calls[k].name = Basename(calls[k].path)

OptionsResolved ==
  \/ pc \in {"loop", "fetch", "template", "print", "done"}
  \/ pc = "fatal" /\ error.at \in {"get_repo_name", "get_repo_logs", "log[body]",
                                   "strptime", "wrap"}

\* the value the three-level precedence gives: the flag when given, else
\* the configuration key when present, else the built-in default
ByPrecedence(flag, key, default) ==
  IF flag # <<>> THEN PyStr(flag[1])
  ELSE IF key # <<>> THEN key[1]
  ELSE default

\* C4: user and width are the flag given on the command line, whatever the
\* configuration file says and also when the value given is the default;
\* else the configuration value when the key is present; else the
\* default (user none, width 60).
C4_Precedence ==
  OptionsResolved =>
    /\ user = ByPrecedence(cmdline.user, cfgfile.user, PyNone)
    /\ width = IntOf(ByPrecedence(cmdline.width, cfgfile.width, PyInt(60))).n

\* the width 60 typed on the command line wins over width 7 of the
\* configuration file
C4_Witness ==
  /\ pc = "loop"
  /\ cmdline.width = <<<<"6", "0">>>>
  /\ cfgfile.width = <<PyInt(7)>>
  /\ width = 60

\* C5: a record whose date is absent or empty is never in the merged list
\* or in the output, and the column tally only holds lengths of records
\* that have a date.
C5_EmptyDateDropped ==
  /\ \A k \in 1..Len(logs) : logs[k].src \in RetainedSrcs
  /\ \A k \in 1..Len(output) : output[k].src \in RetainedSrcs
  /\ \A key \in Keys :
       max_lengths[key] > 0 =>
         \E k \in 1..Len(fetched) :
           /\ HasDate(fetched[k].log)
           /\ key \in DOMAIN fetched[k].log
           /\ Len(fetched[k].log[key]) = max_lengths[key]

\* a report was printed for a repository whose fetch also returned a
\* record with an empty date
C5_Witness ==
  /\ pc = "done"
  /\ output # <<>>
  /\ \E k \in 1..Len(fetched) : ~ HasDate(fetched[k].log)
  /\ \E k \in 1..Len(fetched) :
       fetched[k].src[1] = 1 /\ fetched[k].src \notin RetainedSrcs
                             /\ Len(fetched[k].log["name"]) > 0

\* C6: a failed log fetch ends the run: it is the last call ever made, no
\* later repository is contacted and nothing is printed.
C6_FetchFailureFatal ==
  \A k \in 1..Len(calls) :
    (calls[k].fn = "get_repo_logs" /\ calls[k].raised) =>
      /\ pc = "fatal"
      /\ error.at = "get_repo_logs"
      /\ k = Len(calls)
      /\ \A j \in 1..Len(calls) : calls[j].repo <= calls[k].repo
      /\ output = <<>>

\* the fetch of the second repository failed after the first one was
\* fetched with records, and nothing is printed
C6_Witness ==
  /\ pc = "fatal"
  /\ error.at = "get_repo_logs"
  /\ i = 2
  /\ calls[Len(calls)].raised
  /\ logs # <<>>
  /\ output = <<>>

ConfigError ==
  \/ cfgfile.kind \in {"unreadable", "unparseable", "null"}
  \/ cfgfile.repos = <<>>

\* C7: with a configuration file that is unreadable, unparseable or
\* without the repos key, the run ends in a fatal error before any call of
\* get_repo_name or get_repo_logs and before any output.
C7_ConfigErrorFirst ==
  /\ ConfigError =>
       /\ pc \in {"start", "fatal"}
       /\ calls = <<>>
       /\ output = <<>>
  /\ (pc = "fatal" /\ error.at \in {"open", "yaml.load", "config[repos]"}) =>
       /\ ConfigError
       /\ calls = <<>>
       /\ output = <<>>

\* the run ended on a configuration that has no repos key
C7_Witness ==
  /\ pc = "fatal"
  /\ cfgfile.kind = "map"
  /\ cfgfile.repos = <<>>
  /\ error = [type |-> "ValueError", at |-> "config[repos]"]

RECURSIVE MaxLen(_, _)
MaxLen(recs, key) ==
  IF recs = <<>> THEN 0
  ELSE Max(Len(Head(recs).log[key]), MaxLen(Tail(recs), key))

\* an author filter is active: git log was given --author
FilterActive == AuthorOption(user) # <<>>

\* C8: the padded columns are date, user and name, without user exactly
\* when an author filter is active, and the width of each is the largest
\* length of that field over the records rendered (when there is one).
C8_ColumnWidths ==
  (AfterSort /\ pc # "template" /\ Len(logs) > 0) =>
    /\ [k \in 1..Len(template) |-> template[k].key] =
         IF FilterActive THEN <<"date", "name">> ELSE <<"date", "user", "name">>
    /\ \A k \in 1..Len(template) :
         template[k].width = MaxLen(logs, template[k].key)
    /\ \A k \in 1..Len(Summaries) :
         LET log == logs[k].log
         IN Summaries[k].text =
              Join([n \in 1..Len(template) |->
                      LJust(log[template[n].key], MaxLen(logs, template[n].key))]
                     \o <<log["subject"]>>, <<" ", " ">>)

\* a report with the user column where the record tallied last has a
\* shorter user and a shorter name than a record tallied before it
C8_Witness ==
  /\ pc = "done"
  /\ ~ FilterActive
  /\ \E a, b \in 1..Len(logs) :
       /\ \A c \in 1..Len(logs) : ~ Precedes(logs[b].src, logs[c].src)
       /\ Len(logs[a].log["user"]) > Len(logs[b].log["user"])
       /\ Len(logs[a].log["name"]) > Len(logs[b].log["name"])

\* the record a printed line belongs to
RecordOf(line) == logs[CHOOSE k \in 1..Len(logs) : logs[k].src = line.src]

\* C9: beneath a summary line, "*" is on the first wrapped line of each
\* section that follows a bullet marker and only there: the other lines,
\* and every line of a leading section that no marker introduces, carry
\* the blank; a body of two characters or fewer has no lines.
C9_BulletMarks ==
  \A k \in 1..Len(BodyOutput) :
    LET line == BodyOutput[k]
    IN /\ Len(RecordOf(line).log["body"]) > 2
       /\ line.mark = (IF line.idx = 0 /\ line.section > 1 THEN <<"*">> ELSE <<" ">>)

\* C10: every record of the merged list has a non-empty repository name.
C10_NameNonEmpty ==
  \A k \in 1..Len(logs) : logs[k].log["name"] # <<>>

====
